---- MODULE Spec2Model ----
(***************************************************************************)
(* rgb-emu (src/src/lib.rs): cartridge image (Rom), memory bus (MemBus,    *)
(* Wram, Vram) and processor (Cpu) as a state machine.                     *)
(*                                                                         *)
(* Three specifications share the variables:                               *)
(*   Spec      Rom::new -> MemBus::new -> Cpu::new -> Cpu::run (exec loop)  *)
(*   SpecBus   Spec plus MemBus::write calls made between instructions     *)
(*   SpecPair  the register-pair setters applied to a fresh Cpu            *)
(* Bytes are 0..255 and words 0..65535, written in decimal with the        *)
(* source's hexadecimal in a comment.                                      *)
(***************************************************************************)
EXTENDS Integers, Sequences, FiniteSets, TLC

VARIABLES
    file,    \* the cartridge file handed to Rom::new: [exists, bytes]
    phase,   \* "start" | "rom" | "bus" | "run" | "panicked" | "unit"
    rom,     \* struct Rom
    wram,    \* Wram.data : HashMap<u16, u8>, a partial function
    vram,    \* Vram.data : HashMap<u16, u8>, a partial function
    cpu,     \* struct Cpu registers (plus ovf: a u16 addition overflowed)
    last     \* history: the operation that produced this state

vars == <<file, phase, rom, wram, vram, cpu, last>>

\* ------------------------------------------------------------ bounds

\* Length in bytes of the complete model images (covers 0x0000..0x014F).
ImageLen == 336
\* Cpu::run is followed while pc is below this address, or at or above
\* TopPc.
MaxPc == 271
TopPc == 65520

\* --------------------------------------------------- program constants

TitleStart == 308      \* 0x0134
TitleEnd == 323        \* 0x0143, exclusive
CartTypeAddr == 327    \* 0x0147
RomSizeAddr == 328     \* 0x0148
RamSizeAddr == 329     \* 0x0149
InitSp == 65534        \* 0xFFFE
InitPc == 256          \* 0x0100

\* ------------------------------------------------------------- Rom

\* HashMap::get with the default every caller in the source supplies.
get_or(data, addr, default) ==
    IF addr \in DOMAIN data THEN data[addr] ELSE default

\* Rom::read_rom: byte i of the file is stored under key i. (The u16 key
\* counter overflows only for files above 64 KiB, beyond ImageLen.)
read_rom(f) ==
    [addr \in 0..(Len(f.bytes) - 1) |-> f.bytes[addr + 1]]

\* The title loop of Rom::new: for i in 0x0134..0x0143, a present byte is
\* pushed unless it is zero; an absent one is skipped.
RECURSIVE title_loop(_, _, _)
title_loop(data, i, title) ==
    IF i >= TitleEnd THEN title
    ELSE IF i \in DOMAIN data /\ data[i] # 0
         THEN title_loop(data, i + 1, Append(title, data[i]))
         ELSE title_loop(data, i + 1, title)

\* Rom::get_cart_type: the known codes; any other byte panics.
CartTypeCodes ==
    {0, 1, 2, 3, 5, 6, 8, 9, 11, 12, 13, 15, 16, 17, 18, 19,
     25, 26, 27, 28, 29, 30, 32, 34, 252, 253, 254, 255}

get_cart_type(byte) ==
    CASE byte = 0 -> "ROMONLY"
      [] byte = 1 -> "MBC1"
      [] byte = 2 -> "MBC1RAM"
      [] byte = 3 -> "MBC1RAMBATTERY"
      [] byte = 5 -> "MBC2"
      [] byte = 6 -> "MBC2BATTERY"
      [] byte = 8 -> "ROMRAM"
      [] byte = 9 -> "ROMRAMBATTERY"
      [] byte = 11 -> "MMM01"
      [] byte = 12 -> "MMM01RAM"
      [] byte = 13 -> "MMM01RAMBATTERY"
      [] byte = 15 -> "MBC3TIMERBATTERY"
      [] byte = 16 -> "MBC3TIMERRAMBATTERY"
      [] byte = 17 -> "MBC3"
      [] byte = 18 -> "MBC3RAM"
      [] byte = 19 -> "MBC3RAMBATTERY"
      [] byte = 25 -> "MBC5"
      [] byte = 26 -> "MBC5RAM"
      [] byte = 27 -> "MBC5RAMBATTERY"
      [] byte = 28 -> "MBC5RUMBLE"
      [] byte = 29 -> "MBC5RUMBLERAM"
      [] byte = 30 -> "MBC5RUMBLERAMBATTERY"
      [] byte = 32 -> "MBC6"
      [] byte = 34 -> "MBC7SENSORRUMBLERAMBATTERY"
      [] byte = 252 -> "POCKETCAMERA"
      [] byte = 253 -> "BANDAITAMA5"
      [] byte = 254 -> "HuC3"
      [] byte = 255 -> "HuC1RAMBATTERY"
      [] OTHER -> "panic"

\* Rom::get_rom_size_banks: (size, banks), or a panic.
SizeBanks(size, banks) == [panic |-> FALSE, size |-> size, banks |-> banks]
SizePanic == [panic |-> TRUE, size |-> 0, banks |-> 0]

\* get_rom_size_banks counting one bank for the smallest image.
get_rom_size_banks_one_bank(byte) ==
    CASE byte = 0 -> SizeBanks(32768, 1)
      [] byte = 1 -> SizeBanks(65536, 4)
      [] byte = 2 -> SizeBanks(131072, 8)
      [] byte = 3 -> SizeBanks(262144, 16)
      [] byte = 4 -> SizeBanks(524288, 32)
      [] byte = 5 -> SizeBanks(1048576, 64)
      [] byte = 6 -> SizeBanks(2097152, 128)
      [] byte = 7 -> SizeBanks(4194304, 256)
      [] byte = 8 -> SizeBanks(8388608, 512)
      [] OTHER -> SizePanic

get_rom_size_banks(byte) ==
    CASE byte = 0 -> SizeBanks(32768, 2)
      [] byte = 1 -> SizeBanks(65536, 4)
      [] byte = 2 -> SizeBanks(131072, 8)
      [] byte = 3 -> SizeBanks(262144, 16)
      [] byte = 4 -> SizeBanks(524288, 32)
      [] byte = 5 -> SizeBanks(1048576, 64)
      [] byte = 6 -> SizeBanks(2097152, 128)
      [] byte = 7 -> SizeBanks(4194304, 256)
      [] byte = 8 -> SizeBanks(8388608, 512)
      [] OTHER -> SizePanic

\* Rom::get_ram_size_banks: (size, banks), or a panic.
get_ram_size_banks(byte) ==
    CASE byte = 0 -> SizeBanks(0, 0)
      [] byte = 2 -> SizeBanks(8192, 1)
      [] byte = 3 -> SizeBanks(32768, 4)
      [] byte = 4 -> SizeBanks(131072, 16)
      [] byte = 5 -> SizeBanks(65536, 8)
      [] OTHER -> SizePanic

\* The Rom value before Rom::new has returned one.
NoRom ==
    [data |-> << >>, title |-> << >>, cart_type |-> "none",
     rom_size |-> 0, rom_banks |-> 0, ram_size |-> 0, ram_banks |-> 0]

\* Rom::new: panics when the file cannot be opened (read_rom) or a header
\* byte is not in its table; otherwise returns the Rom. A header byte beyond
\* the end of the file is taken as 0x00.
Rom_new(f) ==
    IF ~f.exists THEN [panic |-> TRUE, rom |-> NoRom]
    ELSE
      LET data == read_rom(f)
          title == title_loop(data, TitleStart, << >>)
          cart_type == get_cart_type(get_or(data, CartTypeAddr, 0))
          rs == get_rom_size_banks(get_or(data, RomSizeAddr, 0))
          ra == get_ram_size_banks(get_or(data, RamSizeAddr, 0))
      IN  IF cart_type = "panic" \/ rs.panic \/ ra.panic
          THEN [panic |-> TRUE, rom |-> NoRom]
          ELSE [panic |-> FALSE,
                rom |-> [data |-> data, title |-> title,
                         cart_type |-> cart_type,
                         rom_size |-> rs.size, rom_banks |-> rs.banks,
                         ram_size |-> ra.size, ram_banks |-> ra.banks]]

\* Rom::get_value answering 0xFF for an absent key.
Rom_get_value_open_bus(r, addr) == get_or(r.data, addr, 255)

\* Rom::get_value
Rom_get_value(r, addr) == get_or(r.data, addr, 0)

\* ------------------------------------------------------ Wram / Vram

\* set_value replacing the map by the one entry.
set_value_forgets(data, addr, entry) == [k \in {addr} |-> entry]

\* Wram::set_value / Vram::set_value: HashMap::insert
set_value(data, addr, entry) ==
    [k \in (DOMAIN data) \cup {addr} |-> IF k = addr THEN entry ELSE data[k]]

\* Wram::get_value / Vram::get_value
get_value(data, addr) == get_or(data, addr, 0)

\* ------------------------------------------------------------ MemBus

\* A bus as the three structures it owns.
Bus(r, w, v) == [rom |-> r, wram |-> w, vram |-> v]

\* access_on with the unusable arm reading 0x00 like the arms around it.
access_unusable_zero(bus, addr) ==
    CASE addr \in 0..16383 -> Rom_get_value(bus.rom, addr)
      [] addr \in 16384..32767 -> Rom_get_value(bus.rom, addr)
      [] addr \in 32768..40959 -> get_value(bus.vram, addr)
      [] addr \in 40960..49151 -> 0
      [] addr \in 49152..53247 -> get_value(bus.wram, addr)
      [] addr \in 53248..57343 -> get_value(bus.wram, addr)
      [] addr \in 57344..65023 -> 0
      [] addr \in 65024..65183 -> 0
      [] addr \in 65184..65279 -> 0
      [] addr \in 65280..65407 -> 0
      [] addr \in 65408..65534 -> 0
      [] addr = 65535 -> 0

\* MemBus::access on a bus value
access_on(bus, addr) ==
    CASE addr \in 0..16383 -> Rom_get_value(bus.rom, addr)      \* 0x0000..=0x3FFF
      [] addr \in 16384..32767 -> Rom_get_value(bus.rom, addr)  \* 0x4000..=0x7FFF
      [] addr \in 32768..40959 -> get_value(bus.vram, addr)     \* 0x8000..=0x9FFF
      [] addr \in 40960..49151 -> 0                             \* 0xA000..=0xBFFF
      [] addr \in 49152..53247 -> get_value(bus.wram, addr)     \* 0xC000..=0xCFFF
      [] addr \in 53248..57343 -> get_value(bus.wram, addr)     \* 0xD000..=0xDFFF
      [] addr \in 57344..65023 -> 0                             \* 0xE000..=0xFDFF
      [] addr \in 65024..65183 -> 0                             \* 0xFE00..=0xFE9F
      [] addr \in 65184..65279 -> 255                           \* 0xFEA0..=0xFEFF
      [] addr \in 65280..65407 -> 0                             \* 0xFF00..=0xFF7F
      [] addr \in 65408..65534 -> 0                             \* 0xFF80..=0xFFFE
      [] addr = 65535 -> 0                                      \* 0xFFFF

\* write_on with the fixed ROM arm storing into the image.
write_rom_stores(bus, addr, entry) ==
    CASE addr \in 0..16383 ->
             [bus EXCEPT !.rom.data = set_value(bus.rom.data, addr, entry)]
      [] addr \in 16384..32767 -> bus
      [] addr \in 32768..40959 ->
             [bus EXCEPT !.vram = set_value(bus.vram, addr, entry)]
      [] addr \in 40960..49151 -> bus
      [] addr \in 49152..53247 ->
             [bus EXCEPT !.wram = set_value(bus.wram, addr, entry)]
      [] addr \in 53248..57343 ->
             [bus EXCEPT !.wram = set_value(bus.wram, addr, entry)]
      [] addr \in 57344..65023 -> bus
      [] addr \in 65024..65183 -> bus
      [] addr \in 65184..65279 -> bus
      [] addr \in 65280..65407 -> bus
      [] addr \in 65408..65534 -> bus
      [] addr = 65535 -> bus

\* write_on with the working-memory arms storing the byte at addr + 1 too.
write_on_spills(bus, addr, entry) ==
    CASE addr \in 32768..40959 ->
             [bus EXCEPT !.vram = set_value(bus.vram, addr, entry)]
      [] addr \in 49152..57343 ->
             [bus EXCEPT !.wram = set_value(set_value(bus.wram, addr, entry),
                                            addr + 1, entry)]
      [] OTHER -> bus

\* MemBus::write on a bus value: only the video and working memory arms
\* store; every other arm prints or does nothing.
write_on(bus, addr, entry) ==
    CASE addr \in 0..16383 -> bus
      [] addr \in 16384..32767 -> bus
      [] addr \in 32768..40959 ->
             [bus EXCEPT !.vram = set_value(bus.vram, addr, entry)]
      [] addr \in 40960..49151 -> bus
      [] addr \in 49152..53247 ->
             [bus EXCEPT !.wram = set_value(bus.wram, addr, entry)]
      [] addr \in 53248..57343 ->
             [bus EXCEPT !.wram = set_value(bus.wram, addr, entry)]
      [] addr \in 57344..65023 -> bus
      [] addr \in 65024..65183 -> bus
      [] addr \in 65184..65279 -> bus
      [] addr \in 65280..65407 -> bus
      [] addr \in 65408..65534 -> bus
      [] addr = 65535 -> bus

\* The bus of the current state, and MemBus::access on it.
membus == Bus(rom, wram, vram)
access(addr) == access_on(membus, addr)

\* --------------------------------------------------------------- Cpu

\* Cpu::new
Cpu_new ==
    [a |-> 0, b |-> 0, c |-> 0, d |-> 0, e |-> 0, f |-> 0, h |-> 0, l |-> 0,
     sp |-> InitSp, pc |-> InitPc, ovf |-> FALSE]

get_af(r) == r.a * 256 + r.f
get_bc(r) == r.b * 256 + r.c
get_de(r) == r.d * 256 + r.e
get_hl(r) == r.h * 256 + r.l

\* (value >> 8) as u8 and (value & 0x0F) as u8
set_af(r, value) == [r EXCEPT !.a = (value \div 256) % 256, !.f = value % 16]
set_bc(r, value) == [r EXCEPT !.b = (value \div 256) % 256, !.c = value % 16]
set_de(r, value) == [r EXCEPT !.d = (value \div 256) % 256, !.e = value % 16]
set_hl(r, value) == [r EXCEPT !.h = (value \div 256) % 256, !.l = value % 16]

\* Cpu::get_16b_value: the byte at pc is the high byte, the byte at pc + 1
\* the low byte. pc + 1 overflows u16 at pc = 0xFFFF.
get_16b_value(bus, r) ==
    access_on(bus, r.pc) * 256 + access_on(bus, (r.pc + 1) % 65536)

get_16b_overflows(r) == r.pc = 65535

\* Cpu::inc_pc: pc += 1 on a u16; at 0xFFFF the addition overflows, which a
\* build with overflow checks turns into a panic and any other build wraps.
inc_pc(r) ==
    [r EXCEPT !.pc = (r.pc + 1) % 65536, !.ovf = r.ovf \/ r.pc = 65535]

\* not_implemented stepping over the opcode.
not_implemented_skips(r) == [r EXCEPT !.pc = (r.pc + 1) % 65536]

\* Cpu::not_implemented: prints, changes nothing.
not_implemented(r) == r

\* nop advancing pc twice.
nop_skips_two(r) == inc_pc(inc_pc(r))

\* Cpu::nop
nop(r) == inc_pc(r)

\* The field of struct Cpu behind a Register of load_r8r8 / load_r8n8.
Reg8 == {"A", "B", "C", "D", "E", "F", "H", "L"}
field(reg) ==
    CASE reg = "A" -> "a" [] reg = "B" -> "b" [] reg = "C" -> "c"
      [] reg = "D" -> "d" [] reg = "E" -> "e" [] reg = "F" -> "f"
      [] reg = "H" -> "h" [] reg = "L" -> "l"

\* load_r8r8 that also copies the value into F.
load_r8r8_into_f(r, source, dest) ==
    LET value == IF source \in Reg8 THEN r[field(source)] ELSE 0
        r1 == IF dest \in Reg8 THEN [r EXCEPT ![field(dest)] = value] ELSE r
    IN  inc_pc([r1 EXCEPT !.f = value])

\* Cpu::load_r8r8(source, dest)
load_r8r8(r, source, dest) ==
    LET value == IF source \in Reg8 THEN r[field(source)] ELSE 0
        r1 == IF dest \in Reg8 THEN [r EXCEPT ![field(dest)] = value] ELSE r
    IN  inc_pc(r1)

\* load_r8n8 reading its operand before the first increment of pc.
load_r8n8_reads_opcode(bus, r, dest) ==
    LET r1 == IF dest \in Reg8
              THEN [r EXCEPT ![field(dest)] = access_on(bus, r.pc)]
              ELSE r
    IN  inc_pc(inc_pc(r1))

\* Cpu::load_r8n8(dest)
load_r8n8(bus, r, dest) ==
    LET r1 == inc_pc(r)
        r2 == IF dest \in Reg8
              THEN [r1 EXCEPT ![field(dest)] = access_on(bus, r1.pc)]
              ELSE r1
    IN  inc_pc(r2)

\* Cpu::load_r16n16(dest)
load_r16n16(bus, r, dest) ==
    LET r1 == inc_pc(r)
        value == get_16b_value(bus, r1)
        r2 == CASE dest = "AF" -> set_af(r1, value)
                [] dest = "BC" -> set_bc(r1, value)
                [] dest = "DE" -> set_de(r1, value)
                [] dest = "HL" -> set_hl(r1, value)
                [] dest = "PC" -> [r1 EXCEPT !.pc = value]
                [] dest = "SP" -> [r1 EXCEPT !.sp = value]
                [] OTHER -> r1
        r3 == [r2 EXCEPT !.ovf = r2.ovf \/ get_16b_overflows(r1)]
    IN  inc_pc(inc_pc(r3))

\* The match of Cpu::exec: the handler each opcode byte is dispatched to,
\* with its Register arguments in the order the source passes them
\* (load_r8r8(source, dest)). Every opcode not listed is not_implemented.
dispatch(op) ==
    CASE op = 0 -> [fn |-> "nop", source |-> "-", dest |-> "-"]  \* 0x00, line 353
      [] op = 1 -> [fn |-> "load_r16n16", source |-> "-", dest |-> "BC"]  \* 0x01, line 354
      [] op = 6 -> [fn |-> "load_r8n8", source |-> "-", dest |-> "B"]  \* 0x06, line 359
      [] op = 14 -> [fn |-> "load_r8n8", source |-> "-", dest |-> "C"]  \* 0x0E, line 367
      [] op = 22 -> [fn |-> "load_r8n8", source |-> "-", dest |-> "D"]  \* 0x16, line 375
      [] op = 30 -> [fn |-> "load_r8n8", source |-> "-", dest |-> "E"]  \* 0x1E, line 383
      [] op = 38 -> [fn |-> "load_r8n8", source |-> "-", dest |-> "H"]  \* 0x26, line 391
      [] op = 46 -> [fn |-> "load_r8n8", source |-> "-", dest |-> "L"]  \* 0x2E, line 399
      [] op = 62 -> [fn |-> "load_r8n8", source |-> "-", dest |-> "A"]  \* 0x3E, line 415
      [] op = 64 -> [fn |-> "load_r8r8", source |-> "B", dest |-> "B"]  \* 0x40, line 417
      [] op = 65 -> [fn |-> "load_r8r8", source |-> "C", dest |-> "B"]  \* 0x41, line 418
      [] op = 66 -> [fn |-> "load_r8r8", source |-> "D", dest |-> "B"]  \* 0x42, line 419
      [] op = 67 -> [fn |-> "load_r8r8", source |-> "E", dest |-> "B"]  \* 0x43, line 420
      [] op = 68 -> [fn |-> "load_r8r8", source |-> "B", dest |-> "H"]  \* 0x44, line 421
      [] op = 69 -> [fn |-> "load_r8r8", source |-> "B", dest |-> "L"]  \* 0x45, line 422
      [] op = 71 -> [fn |-> "load_r8r8", source |-> "B", dest |-> "A"]  \* 0x47, line 424
      [] op = 72 -> [fn |-> "load_r8r8", source |-> "C", dest |-> "B"]  \* 0x48, line 425
      [] op = 73 -> [fn |-> "load_r8r8", source |-> "C", dest |-> "C"]  \* 0x49, line 426
      [] op = 74 -> [fn |-> "load_r8r8", source |-> "C", dest |-> "D"]  \* 0x4A, line 427
      [] op = 75 -> [fn |-> "load_r8r8", source |-> "C", dest |-> "E"]  \* 0x4B, line 428
      [] op = 76 -> [fn |-> "load_r8r8", source |-> "C", dest |-> "H"]  \* 0x4C, line 429
      [] op = 77 -> [fn |-> "load_r8r8", source |-> "C", dest |-> "L"]  \* 0x4D, line 430
      [] op = 79 -> [fn |-> "load_r8r8", source |-> "C", dest |-> "A"]  \* 0x4F, line 432
      [] op = 80 -> [fn |-> "load_r8r8", source |-> "D", dest |-> "B"]  \* 0x50, line 433
      [] op = 81 -> [fn |-> "load_r8r8", source |-> "D", dest |-> "C"]  \* 0x51, line 434
      [] op = 82 -> [fn |-> "load_r8r8", source |-> "D", dest |-> "D"]  \* 0x52, line 435
      [] op = 83 -> [fn |-> "load_r8r8", source |-> "D", dest |-> "E"]  \* 0x53, line 436
      [] op = 84 -> [fn |-> "load_r8r8", source |-> "D", dest |-> "H"]  \* 0x54, line 437
      [] op = 85 -> [fn |-> "load_r8r8", source |-> "D", dest |-> "L"]  \* 0x55, line 438
      [] op = 87 -> [fn |-> "load_r8r8", source |-> "D", dest |-> "A"]  \* 0x57, line 440
      [] op = 88 -> [fn |-> "load_r8r8", source |-> "E", dest |-> "B"]  \* 0x58, line 441
      [] op = 89 -> [fn |-> "load_r8r8", source |-> "E", dest |-> "C"]  \* 0x59, line 442
      [] op = 90 -> [fn |-> "load_r8r8", source |-> "E", dest |-> "D"]  \* 0x5A, line 443
      [] op = 91 -> [fn |-> "load_r8r8", source |-> "E", dest |-> "E"]  \* 0x5B, line 444
      [] op = 92 -> [fn |-> "load_r8r8", source |-> "E", dest |-> "H"]  \* 0x5C, line 445
      [] op = 93 -> [fn |-> "load_r8r8", source |-> "E", dest |-> "L"]  \* 0x5D, line 446
      [] op = 95 -> [fn |-> "load_r8r8", source |-> "E", dest |-> "A"]  \* 0x5F, line 448
      [] op = 96 -> [fn |-> "load_r8r8", source |-> "H", dest |-> "B"]  \* 0x60, line 449
      [] op = 97 -> [fn |-> "load_r8r8", source |-> "H", dest |-> "C"]  \* 0x61, line 450
      [] op = 98 -> [fn |-> "load_r8r8", source |-> "H", dest |-> "D"]  \* 0x62, line 451
      [] op = 99 -> [fn |-> "load_r8r8", source |-> "H", dest |-> "E"]  \* 0x63, line 452
      [] op = 100 -> [fn |-> "load_r8r8", source |-> "H", dest |-> "H"]  \* 0x64, line 453
      [] op = 101 -> [fn |-> "load_r8r8", source |-> "H", dest |-> "L"]  \* 0x65, line 454
      [] op = 103 -> [fn |-> "load_r8r8", source |-> "H", dest |-> "A"]  \* 0x67, line 456
      [] op = 104 -> [fn |-> "load_r8r8", source |-> "L", dest |-> "B"]  \* 0x68, line 457
      [] op = 105 -> [fn |-> "load_r8r8", source |-> "L", dest |-> "C"]  \* 0x69, line 458
      [] op = 106 -> [fn |-> "load_r8r8", source |-> "L", dest |-> "D"]  \* 0x6A, line 459
      [] op = 107 -> [fn |-> "load_r8r8", source |-> "L", dest |-> "E"]  \* 0x6B, line 460
      [] op = 108 -> [fn |-> "load_r8r8", source |-> "L", dest |-> "H"]  \* 0x6C, line 461
      [] op = 109 -> [fn |-> "load_r8r8", source |-> "L", dest |-> "L"]  \* 0x6D, line 462
      [] op = 111 -> [fn |-> "load_r8r8", source |-> "L", dest |-> "A"]  \* 0x6F, line 464
      [] op = 120 -> [fn |-> "load_r8r8", source |-> "A", dest |-> "B"]  \* 0x78, line 473
      [] op = 121 -> [fn |-> "load_r8r8", source |-> "A", dest |-> "C"]  \* 0x79, line 474
      [] op = 122 -> [fn |-> "load_r8r8", source |-> "A", dest |-> "D"]  \* 0x7A, line 475
      [] op = 123 -> [fn |-> "load_r8r8", source |-> "A", dest |-> "E"]  \* 0x7B, line 476
      [] op = 124 -> [fn |-> "load_r8r8", source |-> "A", dest |-> "H"]  \* 0x7C, line 477
      [] op = 125 -> [fn |-> "load_r8r8", source |-> "A", dest |-> "L"]  \* 0x7D, line 478
      [] op = 127 -> [fn |-> "load_r8r8", source |-> "A", dest |-> "A"]  \* 0x7F, line 480
      [] OTHER -> [fn |-> "not_implemented", source |-> "-", dest |-> "-"]

\* Cpu::exec on a register file: fetch the opcode at pc and run its handler.
exec_on(bus, r) ==
    LET op == access_on(bus, r.pc)
        hd == dispatch(op)
    IN  CASE hd.fn = "nop" -> nop(r)
          [] hd.fn = "load_r16n16" -> load_r16n16(bus, r, hd.dest)
          [] hd.fn = "load_r8n8" -> load_r8n8(bus, r, hd.dest)
          [] hd.fn = "load_r8r8" -> load_r8r8(r, hd.source, hd.dest)
          [] OTHER -> not_implemented(r)

\* ------------------------------------------------------- input images

\* A file of len bytes, zero except for a program at 0x0100, a title at
\* 0x0134 and the three header bytes.
MkFile(len, prog, title, cart, romsz, ramsz) ==
    [exists |-> TRUE,
     bytes |->
       [i \in 1..len |->
          LET o == i - 1 IN
          CASE o >= InitPc /\ o < InitPc + Len(prog) -> prog[o - InitPc + 1]
            [] o >= TitleStart /\ o < TitleStart + Len(title) ->
                   title[o - TitleStart + 1]
            [] o = CartTypeAddr -> cart
            [] o = RomSizeAddr -> romsz
            [] o = RamSizeAddr -> ramsz
            [] OTHER -> 0]]

MissingFile == [exists |-> FALSE, bytes |-> << >>]

Tetris == <<84, 69, 84, 82, 73, 83>>          \* "TETRIS"

\* Programs placed at 0x0100.
Programs ==
    { <<0, 0, 0>>,                             \* nop nop nop
      <<1, 52, 18, 0, 197, 209>>,              \* 01 34 12, nop, C5, D1
      <<1, 255, 0, 1, 0, 171>>,                \* 01 FF 00, 01 00 AB
      <<6, 18, 14, 52, 197, 209>>,             \* 06 12, 0E 34, C5, D1
      <<62, 85, 71, 68, 72, 120>>,             \* 3E 55, 47, 44, 48, 78
      <<22, 161, 30, 178, 38, 195, 46, 212>>,  \* 16 A1, 1E B2, 26 C3, 2E D4
      <<209, 0>>,                              \* D1
      <<2, 0>> }                               \* 02

\* Title fields: padded, with a byte after a null, full, empty, high bytes.
Titles ==
    { Tetris,
      <<65, 0, 66>>,
      <<0, 65>>,
      <<65, 66, 67, 68, 69, 70, 71, 72, 73, 74, 75, 76, 77, 78, 79, 80>>,
      << >>,
      <<200, 7, 0, 0, 90>> }

HeaderCarts == {0, 1, 238, 255}    \* 0xEE is in no table
HeaderRomSizes == 0..9             \* every code of the table, and 0x09
HeaderRamSizes == {0, 1, 2}

\* Lengths that end inside or before the header.
TruncatedLens == {0, 300, 312, 327, 328, 329}

Files ==
    {MkFile(ImageLen, p, Tetris, 0, 0, 0) : p \in Programs}
    \cup {MkFile(ImageLen, << >>, t, 0, 0, 0) : t \in Titles}
    \cup {MkFile(ImageLen, << >>, Tetris, ct, rs, ra) :
             ct \in HeaderCarts, rs \in HeaderRomSizes, ra \in HeaderRamSizes}
    \cup {MkFile(n, << >>, Tetris, ct, 9, 1) :
             n \in TruncatedLens, ct \in {0, 238}}
    \cup {MissingFile}

\* Addresses and bytes MemBus::write is called with: one or two addresses
\* in every arm of its match.
WriteAddrs ==
    {256, 16384, 32768, 40960, 49168, 53248, 57360, 65024,
     65184, 65279, 65280, 65408, 65535}
WriteVals == {0, 66}

\* Register-pair values the setters are called with.
PairValues == {0, 15, 255, 4660, 43981, 65535}

\* ------------------------------------------------------------ actions

Op(kind, x, y) == [kind |-> kind, x |-> x, y |-> y]

Init ==
    /\ file \in Files
    /\ phase = "start"
    /\ rom = NoRom
    /\ wram = << >>
    /\ vram = << >>
    /\ cpu = Cpu_new
    /\ last = Op("none", 0, 0)

\* Rom::new(path)
RomNew ==
    /\ phase = "start"
    /\ LET res == Rom_new(file)
       IN  /\ phase' = IF res.panic THEN "panicked" ELSE "rom"
           /\ rom' = res.rom
    /\ last' = Op("Rom::new", 0, 0)
    /\ UNCHANGED <<file, wram, vram, cpu>>

\* MemBus::new(rom)
MemBusNew ==
    /\ phase = "rom"
    /\ phase' = "bus"
    /\ wram' = << >>
    /\ vram' = << >>
    /\ last' = Op("MemBus::new", 0, 0)
    /\ UNCHANGED <<file, rom, cpu>>

\* Cpu::new(membus)
CpuNew ==
    /\ phase = "bus"
    /\ phase' = "run"
    /\ cpu' = Cpu_new
    /\ last' = Op("Cpu::new", 0, 0)
    /\ UNCHANGED <<file, rom, wram, vram>>

\* exec that also stores A at the start of working memory.
exec_writes ==
    /\ phase = "run"
    /\ (cpu.pc < MaxPc \/ cpu.pc >= TopPc)
    /\ phase' = "run"
    /\ cpu' = [exec_on(membus, cpu) EXCEPT !.ovf = FALSE]
    /\ wram' = set_value(wram, 49152, cpu.a)
    /\ last' = Op("exec", access(cpu.pc), cpu.pc)
    /\ UNCHANGED <<file, rom, vram>>

\* One iteration of the loop of Cpu::run: exec. The loop has no exit: the
\* phase stays "run" unless an overflowing u16 addition panics (a build with
\* overflow checks); without them the addition wraps.
exec ==
    /\ phase = "run"
    /\ (cpu.pc < MaxPc \/ cpu.pc >= TopPc)
    /\ LET r == exec_on(membus, cpu)
       IN  /\ phase' \in (IF r.ovf THEN {"run", "panicked"} ELSE {"run"})
           /\ cpu' = IF phase' = "panicked" THEN cpu
                     ELSE [r EXCEPT !.ovf = FALSE]
    /\ last' = Op("exec", access(cpu.pc), cpu.pc)
    /\ UNCHANGED <<file, rom, wram, vram>>

\* MemBus::write(addr, entry)
write(addr, entry) ==
    /\ phase = "run"
    /\ LET bus == write_on(membus, addr, entry)
       IN  /\ rom' = bus.rom
           /\ wram' = bus.wram
           /\ vram' = bus.vram
    /\ last' = Op("write", addr, entry)
    /\ UNCHANGED <<file, phase, cpu>>

BusWrite == \E addr \in WriteAddrs, entry \in WriteVals : write(addr, entry)

\* Cpu::set_bc / set_de / set_hl called on the register file.
SetBC == \E v \in PairValues :
    /\ phase = "unit"
    /\ cpu' = set_bc(cpu, v)
    /\ last' = Op("set_bc", v, 0)
    /\ UNCHANGED <<file, phase, rom, wram, vram>>

SetDE == \E v \in PairValues :
    /\ phase = "unit"
    /\ cpu' = set_de(cpu, v)
    /\ last' = Op("set_de", v, 0)
    /\ UNCHANGED <<file, phase, rom, wram, vram>>

SetHL == \E v \in PairValues :
    /\ phase = "unit"
    /\ cpu' = set_hl(cpu, v)
    /\ last' = Op("set_hl", v, 0)
    /\ UNCHANGED <<file, phase, rom, wram, vram>>

\* --------------------------------------------------- specifications

Next == RomNew \/ MemBusNew \/ CpuNew \/ exec

Spec == Init /\ [][Next]_vars

\* The bus harness: images that load, and writes between instructions.
BusPrograms ==
    { <<0, 0, 0>>,
      <<1, 52, 18, 0, 197, 209>>,
      <<6, 18, 14, 52, 197, 209>>,
      <<62, 85, 71, 68, 72, 120>> }

InitBus ==
    /\ Init
    /\ file \in {MkFile(ImageLen, p, Tetris, 0, 0, 0) : p \in BusPrograms}

NextBus == Next \/ BusWrite

SpecBus == InitBus /\ [][NextBus]_vars

\* The register-pair harness: a fresh register file and the three setters.
InitPair ==
    /\ file = MissingFile
    /\ phase = "unit"
    /\ rom = NoRom
    /\ wram = << >>
    /\ vram = << >>
    /\ cpu = Cpu_new
    /\ last = Op("none", 0, 0)

NextPair == SetBC \/ SetDE \/ SetHL

SpecPair == InitPair /\ [][NextPair]_vars

\* ------------------------------------------------------------ claims

\* Every address whose read can differ between two buses of this model: the
\* ends of every arm of MemBus::access, the written addresses, the program
\* area, and every key of the three maps before and after the step.
RegionEdges ==
    {0, 16383, 16384, 32767, 32768, 40959, 40960, 49151, 49152, 53247,
     53248, 57343, 57344, 65023, 65024, 65183, 65184, 65279, 65280, 65407,
     65408, 65534, 65535}

ReadsUnchanged ==
    \A x \in RegionEdges \cup WriteAddrs
             \cup DOMAIN rom.data \cup DOMAIN rom'.data
             \cup DOMAIN wram \cup DOMAIN wram'
             \cup DOMAIN vram \cup DOMAIN vram' :
        access_on(Bus(rom', wram', vram'), x) = access_on(membus, x)

Loaded == phase \in {"rom", "bus", "run"}

\* C1: for every 16-bit value v, set_bc(v) followed by get_bc returns v, and
\* likewise set_de/get_de and set_hl/get_hl.
C1_PairRoundTrip ==
    /\ last.kind = "set_bc" => get_bc(cpu) = last.x
    /\ last.kind = "set_de" => get_de(cpu) = last.x
    /\ last.kind = "set_hl" => get_hl(cpu) = last.x

\* C2: executing opcode 0x01 with lo at pc + 1 and hi at pc + 2 leaves
\* BC = (hi << 8) | lo and pc advanced by exactly 3.
C2_LoadBC16 ==
    [][(exec /\ access(cpu.pc) = 1) =>
          /\ get_bc(cpu') = access(cpu.pc + 2) * 256 + access(cpu.pc + 1)
          /\ cpu'.pc = cpu.pc + 3]_vars

\* C3: after any sequence of writes, every address a in 0xC000-0xDDFF reads
\* the same at a + 0x2000, and a write into the echo region is visible at the
\* mirrored working-memory address.
C3_EchoMirror ==
    /\ \A a \in 49152..56831 : access(a + 8192) = access(a)
    /\ (last.kind = "write" /\ last.x \in 57344..65023) =>
           access(last.x - 8192) = last.y

\* C4: after any sequence of writes every address in 0xFEA0-0xFEFF reads
\* 0xFF, and a write to that range changes the result of no read.
C4_Unusable ==
    /\ [](\A a \in 65184..65279 : access(a) = 255)
    /\ [][(\E a \in WriteAddrs \cap (65184..65279), v \in WriteVals :
              write(a, v)) => ReadsUnchanged]_vars

\* C4 witness: a write of 0x42 to 0xFEA0 has been made and 0xFEA0 reads 0xFF.
C4_Witness ==
    /\ last = Op("write", 65184, 66)
    /\ access(65184) = 255
    /\ wram # << >>

\* C5: executing opcode 0x00 advances pc by exactly 1 and leaves every other
\* register, the flags, sp and every bus-readable byte unchanged.
C5_Nop ==
    [][(exec /\ access(cpu.pc) = 0) =>
          /\ cpu' = [cpu EXCEPT !.pc = cpu.pc + 1]
          /\ ReadsUnchanged]_vars

\* C5 witness: a nop has executed with registers and memory holding
\* non-zero values.
C5_Witness ==
    /\ last.kind = "exec" /\ last.x = 0
    /\ cpu.pc = last.y + 1
    /\ cpu.b # 0
    /\ wram # << >>

\* C6: push BC (0xC5) with sp = s leaves sp = s - 2, B at s - 1 and C at
\* s - 2; pop DE (0xD1) loads E from sp, D from sp + 1 and adds 2 to sp.
C6_PushPop ==
    /\ [][(exec /\ access(cpu.pc) = 197) =>
             /\ cpu'.sp = (cpu.sp - 2) % 65536
             /\ access_on(Bus(rom', wram', vram'), (cpu.sp - 1) % 65536) = cpu.b
             /\ access_on(Bus(rom', wram', vram'), (cpu.sp - 2) % 65536) = cpu.c]_vars
    /\ [][(exec /\ access(cpu.pc) = 209) =>
             /\ cpu'.e = access(cpu.sp)
             /\ cpu'.d = access((cpu.sp + 1) % 65536)
             /\ cpu'.sp = (cpu.sp + 2) % 65536]_vars

\* C7: a step on an opcode without a handler ends the session: the run loop
\* executes no further instruction.
C7_UnimplementedStops ==
    [][(exec /\ dispatch(access(cpu.pc)).fn = "not_implemented") =>
          phase' # "run"]_vars

\* An existing image that holds all three header bytes, one of them a code
\* outside its table.
UnknownHeaderCode(f) ==
    /\ f.exists
    /\ Len(f.bytes) > RamSizeAddr
    /\ \/ f.bytes[CartTypeAddr + 1] \notin CartTypeCodes
       \/ get_rom_size_banks(f.bytes[RomSizeAddr + 1]).panic
       \/ get_ram_size_banks(f.bytes[RamSizeAddr + 1]).panic

\* C8: loading an image with an unknown mapper, ROM-size or RAM-size byte
\* returns an error: it neither aborts the process nor yields a cartridge.
C8_HeaderErrorsTyped ==
    (phase # "start" /\ UnknownHeaderCode(file)) =>
        (phase # "panicked" /\ ~Loaded)

\* C9: an image too short to hold the header bytes 0x0147-0x0149 never
\* yields a cartridge image.
C9_TruncatedRejected ==
    (file.exists /\ Len(file.bytes) <= RamSizeAddr) => ~Loaded

\* The title field of the file read in order up to its first null byte, the
\* end of the field or the end of the file.
RECURSIVE TitleUntilNull(_, _)
TitleUntilNull(bytes, i) ==
    IF i >= TitleEnd \/ i >= Len(bytes) \/ bytes[i + 1] = 0 THEN << >>
    ELSE <<bytes[i + 1]>> \o TitleUntilNull(bytes, i + 1)

\* C10: the title is the title field's bytes in order up to the first null
\* byte; no byte after a null byte appears in it.
C10_TitleStopsAtNull ==
    Loaded => rom.title = TitleUntilNull(file.bytes, TitleStart)

\* x << n
RECURSIVE Shl(_, _)
Shl(x, n) == IF n = 0 THEN x ELSE Shl(2 * x, n - 1)

\* The title field of the file is t followed by null padding.
TitleFieldIs(f, t) ==
    /\ Len(f.bytes) >= TitleEnd
    /\ \A k \in 1..(TitleEnd - TitleStart) :
          f.bytes[TitleStart + k] = (IF k <= Len(t) THEN t[k] ELSE 0)

\* C11: an image holding the whole header loads with the title "TETRIS" when
\* its title field is TETRIS and null padding, mapper ROM-only for mapper
\* byte 0x00, size 32768 << c and 2 << c banks for its ROM-size code c, and
\* zero RAM banks for RAM-size code 0.
C11_HeaderParsed ==
    (Loaded /\ Len(file.bytes) > RamSizeAddr) =>
        LET c == file.bytes[RomSizeAddr + 1] IN
        /\ c \in 0..8
        /\ rom.rom_size = Shl(32768, c)
        /\ rom.rom_banks = Shl(2, c)
        /\ TitleFieldIs(file, Tetris) => rom.title = Tetris
        /\ file.bytes[CartTypeAddr + 1] = 0 => rom.cart_type = "ROMONLY"
        /\ file.bytes[RamSizeAddr + 1] = 0 =>
               (rom.ram_banks = 0 /\ rom.ram_size = 0)

\* C11 witness: the TETRIS image with mapper byte 0x00 and ROM-size byte 0x00
\* has loaded with two banks.
C11_Witness ==
    /\ Loaded
    /\ Len(file.bytes) > RamSizeAddr
    /\ TitleFieldIs(file, Tetris)
    /\ file.bytes[CartTypeAddr + 1] = 0
    /\ file.bytes[RomSizeAddr + 1] = 0
    /\ rom.title = Tetris /\ rom.cart_type = "ROMONLY" /\ rom.rom_banks = 2

\* The step is a call of MemBus::write with an address in lo..hi.
WriteInto(lo, hi) ==
    \E a \in WriteAddrs \cap (lo..hi), v \in WriteVals : write(a, v)

\* C12: for a ROM-only cartridge every address of the image in
\* 0x0000-0x7FFF reads the image byte at that offset after any sequence of
\* writes, and a write into 0x0000-0x7FFF changes the result of no read and
\* leaves the session running.
C12_RomReadOnly ==
    /\ []((phase = "run" /\ rom.cart_type = "ROMONLY") =>
             \A a \in DOMAIN rom.data :
                 a <= 32767 => access(a) = file.bytes[a + 1])
    /\ [][(rom.cart_type = "ROMONLY" /\ WriteInto(0, 32767)) =>
             (ReadsUnchanged /\ phase' = "run")]_vars

\* C12 witness: 0x42 has been written to 0x0100 of a ROM-only cartridge whose
\* byte there is an opcode of the program, and the opcode is still read.
C12_Witness ==
    /\ phase = "run" /\ rom.cart_type = "ROMONLY"
    /\ last = Op("write", 256, 66)
    /\ access(256) = 1
    /\ file.bytes[257] = 1

\* Video memory and working memory: 0x8000-0x9FFF and 0xC000-0xDFFF.
RamAddrs == (32768..40959) \cup (49152..57343)

\* Bytes written at the ends of the memory arms.
EdgeVals == {0, 66, 255}

\* C13: for every address a of video or working memory, write(a, v) followed
\* by read(a) returns v, and the value read at a changes only by a write to a.
\* The first conjuncts are about the steps taken; the last writes every end
\* of the four memory arms on the bus of the current state.
C13_RamByteStore ==
    /\ [][\A a \in (RegionEdges \cup WriteAddrs
                      \cup DOMAIN wram \cup DOMAIN wram'
                      \cup DOMAIN vram \cup DOMAIN vram') \cap RamAddrs :
             /\ \A v \in WriteVals :
                    write(a, v) => access_on(Bus(rom', wram', vram'), a) = v
             /\ (~ \E v \in WriteVals : write(a, v)) =>
                    access_on(Bus(rom', wram', vram'), a) = access(a)]_vars
    /\ [](phase = "run" =>
            \A a \in RegionEdges \cap RamAddrs, v \in EdgeVals :
               LET bus == write_on(membus, a, v) IN
               /\ access_on(bus, a) = v
               /\ \A b \in ((DOMAIN wram \cup DOMAIN vram \cup RegionEdges)
                              \cap RamAddrs) \ {a} :
                      access_on(bus, b) = access(b))

\* C13 witness: 0x42 was written to 0x8000 and to 0xC010, other steps
\* followed, and both addresses still read 0x42.
C13_Witness ==
    /\ last.kind = "exec"
    /\ access(32768) = 66
    /\ access(49168) = 66
    /\ access(53248) = 0 /\ 53248 \in DOMAIN wram

\* Object-attribute memory, I/O registers, high memory and interrupt enable.
IoAddrs == (65024..65183) \cup (65280..65535)

\* C14: for every address a of object-attribute memory, the I/O registers,
\* high memory or the interrupt-enable register and every byte v, write(a, v)
\* followed by read(a) returns v.
C14_IoByteStore ==
    [][\A a \in WriteAddrs \cap IoAddrs : \A v \in WriteVals :
          write(a, v) => access_on(Bus(rom', wram', vram'), a) = v]_vars

\* External RAM window of the bus.
ExtRamAddrs == 40960..49151

\* C15: with zero cartridge RAM banks every read of 0xA000-0xBFFF returns
\* 0xFF after any sequence of writes, and writes to that range are ignored.
C15_ExtRamAbsent ==
    /\ []((phase = "run" /\ rom.ram_banks = 0) =>
            \A a \in (RegionEdges \cup WriteAddrs) \cap ExtRamAddrs :
               access(a) = 255)
    /\ [][(rom.ram_banks = 0 /\ WriteInto(40960, 49151)) => ReadsUnchanged]_vars

\* ------------------------------------------------- the banked cartridge

BankSize == 16384
BankLen == 32769

\* An MBC1 image (ROM-size code 0x01: four banks) that ends after the first
\* byte of bank 2: bank 1 starts with 0x11, bank 2 with 0x22, and bank 3 is
\* past the end of the image. Its program is the one undefined opcode 0xD3.
BankFile ==
    [MkFile(BankLen, <<211>>, Tetris, 1, 1, 0)
        EXCEPT !.bytes[BankSize + 1] = 17,
               !.bytes[2 * BankSize + 1] = 34]

\* Writes to the mapper's registers (0x2000, 0x4000, 0x6000) and to memory.
BankWriteAddrs == {8192, 16384, 24576, 32768, 49168}
BankWriteVals == {1, 2, 3}

BankWrite ==
    \E addr \in BankWriteAddrs, entry \in BankWriteVals : write(addr, entry)

InitBank ==
    /\ file = BankFile
    /\ phase = "start"
    /\ rom = NoRom
    /\ wram = << >>
    /\ vram = << >>
    /\ cpu = Cpu_new
    /\ last = Op("none", 0, 0)

NextBank == Next \/ BankWrite

SpecBank == InitBank /\ [][NextBank]_vars

\* C16: for a cartridge with a bank-switching mapper, a bank-select write
\* into 0x0000-0x7FFF changes which physical ROM bank is read in
\* 0x4000-0x7FFF: for every bank b of the cartridge but bank 0 there is a
\* write into the ROM range after which read(0x4000) returns the image byte
\* at b * 0x4000 (0 past the end of the image).
C16_BankSwitch ==
    (phase = "run" /\ rom.cart_type # "ROMONLY") =>
        \A b \in 1..(rom.rom_banks - 1) :
            \E a \in BankWriteAddrs \cap (0..32767), v \in BankWriteVals :
                access_on(write_on(membus, a, v), BankSize)
                    = Rom_get_value(rom, b * BankSize)

\* ------------------------------------------------- the opcode harness

\* ld b,0x11; ld c,0x22; ld d,0x33; ld e,0x44; ld h,0x55; ld l,0x66;
\* ld a,0x77: every 8-bit register but F gets a value of its own.
OpPrelude == <<6, 17, 14, 34, 22, 51, 30, 68, 38, 85, 46, 102, 62, 119>>
OpAddr == InitPc + Len(OpPrelude)

\* The prelude, one opcode, and the operand bytes 0x9A 0xBC.
OpProgram(op) == OpPrelude \o <<op, 154, 188>>

OpFiles == {MkFile(ImageLen, OpProgram(op), Tetris, 0, 0, 0) : op \in 0..255}

InitOps ==
    /\ file \in OpFiles
    /\ phase = "start"
    /\ rom = NoRom
    /\ wram = << >>
    /\ vram = << >>
    /\ cpu = Cpu_new
    /\ last = Op("none", 0, 0)

SpecOps == InitOps /\ [][Next]_vars

\* C17: in every state reachable from Cpu::new by executed instructions the
\* bits of F outside the low nibble are zero (F & 0xF0 = 0), and set_af
\* stores no such bit.
C17_FHighNibbleZero ==
    /\ cpu.f \div 16 = 0
    /\ \A v \in PairValues : set_af(cpu, v).f \div 16 = 0

\* C17 witness: the prelude and ld a,b (0x47) have run, A holds B's 0x11,
\* and F is still zero.
C17_Witness ==
    /\ phase = "run"
    /\ last = Op("exec", 71, OpAddr)
    /\ cpu.pc = OpAddr + 1
    /\ cpu.a = 17
    /\ cpu.l = 102
    /\ cpu.f = 0

\* ------------------------------------------- the top of the address space

\* Cpu::run with pc in the last bytes of the address space, which read 0x00
\* (nop) through MemBus::access.
InitTop ==
    /\ file = MkFile(ImageLen, <<211>>, Tetris, 0, 0, 0)
    /\ phase = "run"
    /\ rom = Rom_new(file).rom
    /\ wram = << >>
    /\ vram = << >>
    /\ \E p \in TopPc..65535 : cpu = [Cpu_new EXCEPT !.pc = p]
    /\ last = Op("none", 0, 0)

NextTop == exec

SpecTop == InitTop /\ [][NextTop]_vars

C19_LenientRead ==
    phase = "rom" =>
        \A addr \in 0..65535 :
            Rom_get_value(rom, addr) =
                (IF addr < Len(file.bytes) THEN file.bytes[addr + 1] ELSE 0)

\* C19 witness: an image that ends inside the header is loaded, and the
\* reads just past its end and at the last offset return 0.
C19_Witness ==
    /\ phase = "rom"
    /\ Len(file.bytes) = 312
    /\ Rom_get_value(rom, 311) = 82
    /\ Rom_get_value(rom, 312) = 0
    /\ Rom_get_value(rom, 65535) = 0

\* The register a three-bit field of an opcode encodes: B, C, D, E, H, L,
\* (HL), A.
RegCode(n) ==
    CASE n = 0 -> "b" [] n = 1 -> "c" [] n = 2 -> "d" [] n = 3 -> "e"
      [] n = 4 -> "h" [] n = 5 -> "l" [] n = 7 -> "a"

\* The opcodes of 0x40-0x7F whose source and destination are plain registers.
PlainTransfer(op) ==
    /\ op \in 64..127
    /\ op % 8 # 6
    /\ (op \div 8) % 8 # 6

\* C20: executing a plain register-to-register opcode of 0x40-0x7F copies
\* the register encoded in bits 0-2 into the register encoded in bits 3-5,
\* leaves every other register, F and SP unchanged, and advances PC by 1.
C20_RegTransfer ==
    [][(exec /\ cpu.pc = OpAddr /\ PlainTransfer(access(cpu.pc))) =>
          LET op == access(cpu.pc)
          IN  cpu' = [cpu EXCEPT ![RegCode((op \div 8) % 8)] =
                                      cpu[RegCode(op % 8)],
                                 !.pc = cpu.pc + 1]]_vars

\* The 8-bit immediate loads and their target registers.
ImmLoadOps == {6, 14, 22, 30, 38, 46, 62}
ImmLoadReg(op) ==
    CASE op = 6 -> "b" [] op = 14 -> "c" [] op = 22 -> "d" [] op = 30 -> "e"
      [] op = 38 -> "h" [] op = 46 -> "l" [] op = 62 -> "a"

\* C21: executing 0x06, 0x0E, 0x16, 0x1E, 0x26, 0x2E or 0x3E sets B, C, D,
\* E, H, L or A to the byte read from the bus at PC + 1, advances PC by
\* exactly 2, and leaves every other register, F, SP and every bus read
\* unchanged.
C21_ImmLoad ==
    [][(exec /\ access(cpu.pc) \in ImmLoadOps) =>
          /\ phase' = "run"
          /\ cpu' = [cpu EXCEPT ![ImmLoadReg(access(cpu.pc))] =
                                     access(cpu.pc + 1),
                                !.pc = cpu.pc + 2]
          /\ ReadsUnchanged]_vars

\* C21 witness: ld h,0x9A has run behind the prelude: H holds the operand,
\* the other registers hold the prelude's values, PC is two further.
C21_Witness ==
    /\ phase = "run"
    /\ last = Op("exec", 38, OpAddr)
    /\ cpu.pc = OpAddr + 2
    /\ cpu.h = 154
    /\ cpu.b = 17 /\ cpu.c = 34 /\ cpu.d = 51 /\ cpu.e = 68
    /\ cpu.l = 102 /\ cpu.a = 119
    /\ cpu.f = 0 /\ cpu.sp = InitSp

\* The byte at PC dispatches to not_implemented.
AtUnimplemented == dispatch(access(cpu.pc)).fn = "not_implemented"

\* C22: when the byte at PC dispatches to not_implemented, an exec call
\* leaves PC, SP, every register and every bus read unchanged and the loop
\* goes on, so the CPU state never changes again; PC changes only on an
\* implemented opcode.
C22_NoProgress ==
    /\ [][(phase = "run" /\ AtUnimplemented) =>
             /\ cpu' = cpu
             /\ phase' = "run"
             /\ ReadsUnchanged
             /\ exec => last' = Op("exec", access(cpu.pc), cpu.pc)]_vars
    /\ [][cpu'.pc # cpu.pc => ~ AtUnimplemented]_vars

\* C22 witness: the undefined opcode 0xD3 behind the prelude has been
\* executed and PC still points at it, the registers as the prelude left them.
C22_Witness ==
    /\ phase = "run"
    /\ last = Op("exec", 211, OpAddr)
    /\ cpu.pc = OpAddr
    /\ access(cpu.pc) = 211
    /\ cpu.b = 17 /\ cpu.a = 119 /\ cpu.sp = InitSp

\* The bus as MemBus::new builds it from the image.
InitialBus == Bus(Rom_new(file).rom, << >>, << >>)

\* C23: across any sequence of exec calls from Cpu::new no bus write occurs:
\* every bus read keeps its initial value and the two memories stay empty,
\* SP stays 0xFFFE and F stays 0x00; an exec call changes at most A, B, C, D,
\* E, H, L and PC.
C23_CpuNeverWrites ==
    /\ [](phase = "run" =>
            /\ cpu.sp = InitSp
            /\ cpu.f = 0
            /\ wram = << >> /\ vram = << >>
            /\ LET bus == InitialBus
               IN  \A x \in RegionEdges \cup WriteAddrs \cup DOMAIN rom.data :
                      access(x) = access_on(bus, x))
    /\ [][exec =>
             /\ ReadsUnchanged
             /\ <<rom, wram, vram>>' = <<rom, wram, vram>>
             /\ cpu'.sp = cpu.sp /\ cpu'.f = cpu.f]_vars

\* C23 witness: the prelude and ld bc,n16 have run, seven registers and PC
\* have changed, and SP, F and the bus are as constructed.
C23_Witness ==
    /\ phase = "run"
    /\ last = Op("exec", 1, OpAddr)
    /\ cpu.pc = OpAddr + 3
    /\ cpu.b = 154 /\ cpu.d = 51 /\ cpu.a = 119
    /\ cpu.sp = InitSp /\ cpu.f = 0
    /\ wram = << >> /\ vram = << >>
    /\ access(OpAddr) = 1

\* The addresses read to compare two buses: the ends of every arm, the
\* written addresses, the start of the program, and every key of the two
\* memories of both buses.
Probes(b1, b2) ==
    RegionEdges \cup WriteAddrs \cup {InitPc}
        \cup DOMAIN b1.wram \cup DOMAIN b1.vram
        \cup DOMAIN b2.wram \cup DOMAIN b2.vram

\* C24: for every address a, byte v and address b different from a,
\* write(a, v) leaves the value read at b unchanged. The first conjunct is
\* about the writes taken; the second writes every end of every arm on the
\* bus of the current state.
C24_WriteLocality ==
    /\ [][last'.kind = "write" =>
             LET bus == Bus(rom', wram', vram')
             IN  \A b \in Probes(membus, bus) \ {last'.x} :
                    access_on(bus, b) = access(b)]_vars
    /\ [](phase = "run" =>
            \A a \in RegionEdges \cup WriteAddrs, v \in WriteVals :
               LET bus == write_on(membus, a, v)
               IN  \A b \in Probes(membus, bus) \ {a} :
                      access_on(bus, b) = access(b))

\* C24 witness: 0x42 has just been written at 0xC010 while 0x8000 and 0xD000
\* hold earlier writes, which read back as before.
C24_Witness ==
    /\ phase = "run"
    /\ last = Op("write", 49168, 66)
    /\ access(49168) = 66
    /\ access(32768) = 66
    /\ 53248 \in DOMAIN wram /\ access(53248) = 0

====
